---- MODULE Spec2Model ----
(***************************************************************************)
(* Model of the ralonr/logger package: a leveled, structured-logging       *)
(* facade over the zap engine.  Two variants of the facade live in the     *)
(* repository: Zap (built by NewZap from a Config) and ZapLogger (built    *)
(* by NewZapLogger from a level).                                          *)
(***************************************************************************)
EXTENDS Integers, Sequences, FiniteSets, TLC

VARIABLES
    lit,        \* the configuration literal the caller wrote
    z,          \* the logger instance (Zap or ZapLogger)
    sink,       \* records the engine has written to the output
    trace,      \* history: facade calls, engine calls, exit-callback calls
    proc,       \* "running" or "exited"
    exitCode,   \* status the process exited with (0 while running)
    arg,        \* input of a pure function under SpecLevel / SpecFields
    ret         \* its result

vars == <<lit, z, sink, trace, proc, exitCode, arg, ret>>

----------------------------------------------------------------------------
(* Bounds *)

\* number of integer values modelled below DebugLevel and above FatalLevel
MaxOut == 1
\* number of facade calls in one behaviour
MaxCalls == 2
\* number of distinct keys a field set may hold
MaxKeys == 2

----------------------------------------------------------------------------
(* Severities: src/logger.go:21-27 (Level), src/unnamed/part_003:9-15 *)

DebugLevel == 0
InfoLevel == 1
WarnLevel == 2
ErrorLevel == 3
FatalLevel == 4

Severities == {DebugLevel, InfoLevel, WarnLevel, ErrorLevel, FatalLevel}

\* Level is a Go int: any integer is a Level value.  The model keeps the five
\* named ones and MaxOut values on each side of them.
LevelRange == (DebugLevel - MaxOut) .. (FatalLevel + MaxOut)

\* The engine's own levels (zapcore.Level): Debug -1, Info 0, Warn 1,
\* Error 2, DPanic 3, Panic 4, Fatal 5.
zapDebugLevel == -1
zapInfoLevel == 0
zapWarnLevel == 1
zapErrorLevel == 2
zapFatalLevel == 5

----------------------------------------------------------------------------
(* Construction *)

\* Mutant: a Config literal whose missing Level counts as InfoLevel.
ConfigLiteral_InfoDefault(l) ==
    [Level    |-> IF l.hasLevel THEN l.Level ELSE InfoLevel,
     ExitFunc |-> IF l.hasExit THEN "injected" ELSE "nil"]

\* A Config literal: a field the caller leaves out holds Go's zero value,
\* which is 0 (= DebugLevel) for Level and nil for ExitFunc.
ConfigLiteral(l) ==
    [Level    |-> IF l.hasLevel THEN l.Level ELSE 0,
     ExitFunc |-> IF l.hasExit THEN "injected" ELSE "nil"]

\* The switch of both constructors: the engine's minimum level.
atomicLevelFor(level) ==
    CASE level = DebugLevel -> zapDebugLevel
      [] level = InfoLevel  -> zapInfoLevel
      [] level = WarnLevel  -> zapWarnLevel
      [] level = ErrorLevel -> zapErrorLevel
      [] level = FatalLevel -> zapFatalLevel
      [] OTHER              -> zapInfoLevel

\* Mutant: NewZap without the nil check of lines 43-45.
NewZap_NoDefaultExit(config) ==
    [variant     |-> "Zap",
     atomicLevel |-> atomicLevelFor(config.Level),
     Level       |-> config.Level,
     ExitFunc    |-> config.ExitFunc]

NewZap(config) ==
    [variant     |-> "Zap",
     atomicLevel |-> atomicLevelFor(config.Level),
     Level       |-> config.Level,
     ExitFunc    |-> IF config.ExitFunc = "nil" THEN "os.Exit"
                     ELSE config.ExitFunc]

NewZapLogger(level) ==
    [variant     |-> "ZapLogger",
     atomicLevel |-> atomicLevelFor(level),
     Level       |-> level,
     ExitFunc    |-> "noop"]

\* zapLogger.exitFunc = func(code int) {...}: the in-package assignment the
\* README and the tests use to replace ZapLogger's exit callback.
SetExitFunc(zl, f) == [zl EXCEPT !.ExitFunc = f]

----------------------------------------------------------------------------
(* Level policy *)

\* Mutant: a strict comparison.
shouldLog_Strict(inst, level) == level > inst.Level

\* Mutant: no gate.
shouldLog_Always(inst, level) == TRUE

shouldLog(inst, level) == level >= inst.Level

\* Mutant: a label for unknown levels.
GetLogLevel_Unknown(l) ==
    CASE l = DebugLevel -> "debug"
      [] l = InfoLevel  -> "info"
      [] l = WarnLevel  -> "warn"
      [] l = ErrorLevel -> "error"
      [] l = FatalLevel -> "fatal"
      [] OTHER          -> "unknown"

GetLogLevel(l) ==
    CASE l = DebugLevel -> "debug"
      [] l = InfoLevel  -> "info"
      [] l = WarnLevel  -> "warn"
      [] l = ErrorLevel -> "error"
      [] l = FatalLevel -> "fatal"
      [] OTHER          -> ""

----------------------------------------------------------------------------
(* Field adapter *)

\* Go values a caller can put in a Fields map, by dynamic type.  A float is
\* held as its bit pattern, a time as its Unix nanoseconds.
Values ==
    { [cat |-> "string",        val |-> "value"],
      [cat |-> "int",           val |-> 42],
      [cat |-> "int32",         val |-> 7],
      [cat |-> "int64",         val |-> 64],
      [cat |-> "float64",       val |-> 314],
      [cat |-> "bool",          val |-> TRUE],
      [cat |-> "bool",          val |-> FALSE],
      [cat |-> "[]byte",        val |-> <<116, 101>>],
      [cat |-> "time.Time",     val |-> 1000],
      [cat |-> "time.Duration", val |-> 60],
      [cat |-> "struct",        val |-> <<>>] }

KeyPool == <<"key", "k2", "k3", "k4">>
Keys == {KeyPool[i] : i \in 1..MaxKeys}

\* Fields is map[string]any: a function from a set of distinct keys.
FieldSetsOver(V) == UNION {[D -> V] : D \in SUBSET Keys}

\* The orders in which `for k, v := range fields` may visit the map.
RangeOrders(fields) ==
    {o \in [1..Cardinality(DOMAIN fields) -> DOMAIN fields] :
        \A i, j \in DOMAIN o : i # j => o[i] # o[j]}

\* zap.Field: Key, Type and the three payload slots.
NoInterface == [cat |-> "nil", val |-> 0]
Field(k, t, i, s, x) ==
    [Key |-> k, Type |-> t, Integer |-> i, String |-> s, Interface |-> x]

zapString(k, v)   == Field(k, "StringType", 0, v.val, NoInterface)
zapInt64(k, v)    == Field(k, "Int64Type", v.val, "", NoInterface)
zapInt(k, v)      == zapInt64(k, [cat |-> "int64", val |-> v.val])
zapInt32(k, v)    == Field(k, "Int32Type", v.val, "", NoInterface)
zapFloat64(k, v)  == Field(k, "Float64Type", v.val, "", NoInterface)
zapBool(k, v)     == Field(k, "BoolType", IF v.val THEN 1 ELSE 0, "", NoInterface)
zapBinary(k, v)   == Field(k, "BinaryType", 0, "", v)
zapTime(k, v)     == Field(k, "TimeType", v.val, "", [cat |-> "*time.Location", val |-> 0])
zapDuration(k, v) == Field(k, "DurationType", v.val, "", NoInterface)
zapReflect(k, v)  == Field(k, "ReflectType", 0, "", v)

\* zap.Any picks the best typed constructor for the value and falls back
\* to Reflect.
zapAny(k, v) ==
    CASE v.cat = "string"        -> zapString(k, v)
      [] v.cat = "int"           -> zapInt(k, v)
      [] v.cat = "int32"         -> zapInt32(k, v)
      [] v.cat = "int64"         -> zapInt64(k, v)
      [] v.cat = "float64"       -> zapFloat64(k, v)
      [] v.cat = "bool"          -> zapBool(k, v)
      [] v.cat = "[]byte"        -> zapBinary(k, v)
      [] v.cat = "time.Time"     -> zapTime(k, v)
      [] v.cat = "time.Duration" -> zapDuration(k, v)
      [] OTHER                   -> zapReflect(k, v)

\* The type switch of mapToZapFields in zap.go (Zap).
zapFieldOfZap(k, v) ==
    CASE v.cat = "string"  -> zapString(k, v)
      [] v.cat = "int"     -> zapInt(k, v)
      [] v.cat = "int64"   -> zapInt64(k, v)
      [] v.cat = "float64" -> zapFloat64(k, v)
      [] v.cat = "bool"    -> zapBool(k, v)
      [] OTHER             -> zapAny(k, v)

\* The type switch of mapToZapFields in zap_logger.go (ZapLogger).
zapFieldOfZapLogger(k, v) ==
    CASE v.cat = "string"        -> zapString(k, v)
      [] v.cat = "int"           -> zapInt(k, v)
      [] v.cat = "int64"         -> zapInt64(k, v)
      [] v.cat = "float64"       -> zapFloat64(k, v)
      [] v.cat = "bool"          -> zapBool(k, v)
      [] v.cat = "[]byte"        -> zapBinary(k, v)
      [] v.cat = "time.Time"     -> zapTime(k, v)
      [] v.cat = "time.Duration" -> zapDuration(k, v)
      [] OTHER                   -> zapAny(k, v)

\* Mutant: a boolean stored through the integer constructor.
zapFieldOf_BoolAsInt(variant, k, v) ==
    IF v.cat = "bool"
    THEN zapInt64(k, [cat |-> "int64", val |-> IF v.val THEN 1 ELSE 0])
    ELSE IF variant = "Zap" THEN zapFieldOfZap(k, v) ELSE zapFieldOfZapLogger(k, v)

zapFieldOf(variant, k, v) ==
    IF variant = "Zap" THEN zapFieldOfZap(k, v) ELSE zapFieldOfZapLogger(k, v)

\* mapToZapFields: one append per entry the range loop visits, in visiting
\* order `ord`.
RECURSIVE appendFields(_, _, _, _, _)
appendFields(variant, fields, ord, i, zapFields) ==
    IF i > Len(ord) THEN zapFields
    ELSE appendFields(variant, fields, ord, i + 1,
                      Append(zapFields, zapFieldOf(variant, ord[i], fields[ord[i]])))

\* Mutant: the loop misses the first entry it visits.
mapToZapFields_SkipFirst(variant, fields, ord) ==
    appendFields(variant, fields, ord, 2, <<>>)

mapToZapFields(variant, fields, ord) ==
    appendFields(variant, fields, ord, 1, <<>>)

----------------------------------------------------------------------------
(* The engine and the process *)

\* The part of the state the statements of one handler run through, one
\* after the other.  A statement that follows the end of the process does
\* nothing.
World == [sink |-> sink, trace |-> trace, proc |-> proc, exitCode |-> exitCode]

Enter(w, op, msg, fields) ==
    [w EXCEPT !.trace = Append(@, [type |-> "call", op |-> op, msg |-> msg,
                                   fields |-> fields])]

\* z.logger.Debug/Info/Warn/Error/Fatal(msg, fields...): the engine writes a
\* record when its own minimum level enables lvl; at fatal level it then
\* ends the process with status 1 (zap's WriteThenFatal, which neither
\* constructor overrides) and the call does not return.
zapLog(w, inst, lvl, msg, zapFields) ==
    IF w.proc # "running" THEN w
    ELSE LET returns == lvl # zapFatalLevel
         IN [sink     |-> IF lvl >= inst.atomicLevel
                          THEN Append(w.sink, [level |-> lvl, msg |-> msg,
                                               fields |-> zapFields])
                          ELSE w.sink,
             trace    |-> Append(w.trace, [type |-> "emit", level |-> lvl,
                                           msg |-> msg, fields |-> zapFields,
                                           returned |-> returns]),
             proc     |-> IF returns THEN w.proc ELSE "exited",
             exitCode |-> IF returns THEN w.exitCode ELSE 1]

\* z.Config.ExitFunc(code) / z.exitFunc(code)
callExitFunc(w, f, code) ==
    IF w.proc # "running" THEN w
    ELSE [w EXCEPT !.trace = Append(@, [type |-> "exit", code |-> code]),
                   !.proc = IF f = "os.Exit" THEN "exited" ELSE @,
                   !.exitCode = IF f = "os.Exit" THEN code ELSE @]

Commit(w) ==
    /\ sink' = w.sink
    /\ trace' = w.trace
    /\ proc' = w.proc
    /\ exitCode' = w.exitCode

NumCalls == Cardinality({i \in 1..Len(trace) : trace[i].type = "call"})

CanCall ==
    /\ proc = "running"
    /\ NumCalls < MaxCalls

----------------------------------------------------------------------------
(* The facade: Zap and ZapLogger share the bodies of the five operations *)

Debug(msg, fields, ord) ==
    /\ CanCall
    /\ LET w == Enter(World, "Debug", msg, fields)
       IN Commit(IF shouldLog(z, DebugLevel)
                 THEN zapLog(w, z, zapDebugLevel, msg,
                             mapToZapFields(z.variant, fields, ord))
                 ELSE w)
    /\ UNCHANGED <<lit, z, arg, ret>>

Info(msg, fields, ord) ==
    /\ CanCall
    /\ LET w == Enter(World, "Info", msg, fields)
       IN Commit(IF shouldLog(z, InfoLevel)
                 THEN zapLog(w, z, zapInfoLevel, msg,
                             mapToZapFields(z.variant, fields, ord))
                 ELSE w)
    /\ UNCHANGED <<lit, z, arg, ret>>

\* Mutant: Warn forwards at the engine's info level.
Warn_AtInfo(msg, fields, ord) ==
    /\ CanCall
    /\ LET w == Enter(World, "Warn", msg, fields)
       IN Commit(IF shouldLog(z, WarnLevel)
                 THEN zapLog(w, z, zapInfoLevel, msg,
                             mapToZapFields(z.variant, fields, ord))
                 ELSE w)
    /\ UNCHANGED <<lit, z, arg, ret>>

Warn(msg, fields, ord) ==
    /\ CanCall
    /\ LET w == Enter(World, "Warn", msg, fields)
       IN Commit(IF shouldLog(z, WarnLevel)
                 THEN zapLog(w, z, zapWarnLevel, msg,
                             mapToZapFields(z.variant, fields, ord))
                 ELSE w)
    /\ UNCHANGED <<lit, z, arg, ret>>

\* Mutant: Error keeps its own severity as the instance's new minimum.
Error_RaisesLevel(msg, fields, ord) ==
    /\ CanCall
    /\ LET w == Enter(World, "Error", msg, fields)
       IN Commit(IF shouldLog(z, ErrorLevel)
                 THEN zapLog(w, z, zapErrorLevel, msg,
                             mapToZapFields(z.variant, fields, ord))
                 ELSE w)
    /\ z' = [z EXCEPT !.Level = ErrorLevel]
    /\ UNCHANGED <<lit, arg, ret>>

Error(msg, fields, ord) ==
    /\ CanCall
    /\ LET w == Enter(World, "Error", msg, fields)
       IN Commit(IF shouldLog(z, ErrorLevel)
                 THEN zapLog(w, z, zapErrorLevel, msg,
                             mapToZapFields(z.variant, fields, ord))
                 ELSE w)
    /\ UNCHANGED <<lit, z, arg, ret>>

\* Mutant: Fatal calls the exit callback before the engine.
Fatal_ExitFirst(msg, fields, ord) ==
    /\ CanCall
    /\ LET w == Enter(World, "Fatal", msg, fields)
       IN Commit(IF shouldLog(z, FatalLevel)
                 THEN zapLog(callExitFunc(w, z.ExitFunc, 1), z, zapFatalLevel, msg,
                             mapToZapFields(z.variant, fields, ord))
                 ELSE w)
    /\ UNCHANGED <<lit, z, arg, ret>>

Fatal(msg, fields, ord) ==
    /\ CanCall
    /\ LET w == Enter(World, "Fatal", msg, fields)
       IN Commit(IF shouldLog(z, FatalLevel)
                 THEN callExitFunc(zapLog(w, z, zapFatalLevel, msg,
                                          mapToZapFields(z.variant, fields, ord)),
                                   z.ExitFunc, 1)
                 ELSE w)
    /\ UNCHANGED <<lit, z, arg, ret>>

----------------------------------------------------------------------------
(* Specification of the facade *)

\* What a caller can write to obtain an instance: NewZap(Config{...}) with
\* Level and ExitFunc each given or left out, or NewZapLogger(level)
\* followed or not by the assignment of exitFunc.
Literals ==
    { l \in [variant : {"Zap", "ZapLogger"}, hasLevel : BOOLEAN,
             Level : LevelRange, hasExit : BOOLEAN] :
        /\ l.variant = "ZapLogger" => l.hasLevel
        /\ ~l.hasLevel => l.Level = 0 }

Construct(l) ==
    IF l.variant = "Zap" THEN NewZap(ConfigLiteral(l))
    ELSE IF l.hasExit THEN SetExitFunc(NewZapLogger(l.Level), "injected")
    ELSE NewZapLogger(l.Level)

NoRet == [fn |-> "none", val |-> 0]

Msgs == {"hello", "bye"}

\* Field sets the facade is called with: no entry, or two entries of which
\* one has a case of its own in both type switches and one has not.
FacadeFields ==
    { <<>>,
      [k \in {KeyPool[1], KeyPool[2]} |->
          IF k = KeyPool[1] THEN [cat |-> "string", val |-> "value"]
          ELSE [cat |-> "[]byte", val |-> <<116, 101>>]] }

Init ==
    /\ lit \in Literals
    /\ z = Construct(lit)
    /\ sink = <<>>
    /\ trace = <<>>
    /\ proc = "running"
    /\ exitCode = 0
    /\ arg = 0
    /\ ret = NoRet

Next ==
    \E msg \in Msgs, fields \in FacadeFields :
        \E ord \in RangeOrders(fields) :
            \/ Debug(msg, fields, ord)
            \/ Info(msg, fields, ord)
            \/ Warn(msg, fields, ord)
            \/ Error(msg, fields, ord)
            \/ Fatal(msg, fields, ord)

Spec == Init /\ [][Next]_vars

----------------------------------------------------------------------------
(* Specification of the level policy as a pure function *)

InitLevel ==
    /\ lit \in Literals
    /\ z = Construct(lit)
    /\ sink = <<>>
    /\ trace = <<>>
    /\ proc = "running"
    /\ exitCode = 0
    /\ arg \in LevelRange
    /\ ret = NoRet

ShouldLogCall ==
    /\ ret.fn = "none"
    /\ ret' = [fn |-> "shouldLog", val |-> shouldLog(z, arg)]
    /\ UNCHANGED <<lit, z, sink, trace, proc, exitCode, arg>>

GetLogLevelCall ==
    /\ ret.fn = "none"
    /\ ret' = [fn |-> "GetLogLevel", val |-> GetLogLevel(arg)]
    /\ UNCHANGED <<lit, z, sink, trace, proc, exitCode, arg>>

NextLevel == ShouldLogCall \/ GetLogLevelCall

SpecLevel == InitLevel /\ [][NextLevel]_vars

----------------------------------------------------------------------------
(* Specification of the field adapter as a pure function *)

DefaultLiteral ==
    [variant |-> "Zap", hasLevel |-> FALSE, Level |-> 0, hasExit |-> FALSE]

InitFields ==
    /\ lit = DefaultLiteral
    /\ z = Construct(lit)
    /\ sink = <<>>
    /\ trace = <<>>
    /\ proc = "running"
    /\ exitCode = 0
    /\ arg \in [variant : {"Zap", "ZapLogger"}, fields : FieldSetsOver(Values)]
    /\ ret = NoRet

MapToZapFieldsCall ==
    /\ ret.fn = "none"
    /\ \E ord \in RangeOrders(arg.fields) :
           ret' = [fn |-> "mapToZapFields",
                   val |-> mapToZapFields(arg.variant, arg.fields, ord)]
    /\ UNCHANGED <<lit, z, sink, trace, proc, exitCode, arg>>

NextFields == MapToZapFieldsCall

SpecFields == InitFields /\ [][NextFields]_vars

----------------------------------------------------------------------------
(* Properties of the level policy, under SpecLevel *)

\* The severities an instance configured with minimum C logs.
LoggedAt(C) ==
    CASE C = DebugLevel -> {DebugLevel, InfoLevel, WarnLevel, ErrorLevel, FatalLevel}
      [] C = InfoLevel  -> {InfoLevel, WarnLevel, ErrorLevel, FatalLevel}
      [] C = WarnLevel  -> {WarnLevel, ErrorLevel, FatalLevel}
      [] C = ErrorLevel -> {ErrorLevel, FatalLevel}
      [] C = FatalLevel -> {FatalLevel}

\* C1: on an instance configured with minimum C, shouldLog(S) is true
\* exactly when S is at or above C in Debug < Info < Warn < Error < Fatal,
\* for all 25 pairs of named severities.
ShouldLogMatrix ==
    (/\ ret.fn = "shouldLog"
     /\ lit.hasLevel
     /\ lit.Level \in Severities
     /\ arg \in Severities)
        => (ret.val <=> arg \in LoggedAt(lit.Level))

ShouldLogMatrixWitness ==
    /\ ret.fn = "shouldLog"
    /\ lit.hasLevel
    /\ lit.Level = InfoLevel
    /\ arg = DebugLevel
    /\ ret.val = FALSE

\* C10: the label of a level outside the five named ones is the empty
\* string, the five named ones have their lowercase names, and shouldLog
\* with an out-of-range configured or candidate level is still the boolean
\* candidate >= configured.
OutOfRangeNeverFails ==
    /\ ret.fn = "GetLogLevel" =>
          /\ arg \notin Severities => ret.val = ""
          /\ arg = DebugLevel => ret.val = "debug"
          /\ arg = InfoLevel => ret.val = "info"
          /\ arg = WarnLevel => ret.val = "warn"
          /\ arg = ErrorLevel => ret.val = "error"
          /\ arg = FatalLevel => ret.val = "fatal"
    /\ (/\ ret.fn = "shouldLog"
        /\ lit.hasLevel
        /\ (arg \notin Severities \/ lit.Level \notin Severities))
          => /\ ret.val \in BOOLEAN
             /\ ret.val <=> ~(arg < lit.Level)

OutOfRangeWitness ==
    /\ ret.fn = "GetLogLevel"
    /\ arg = FatalLevel + 1
    /\ ret.val = ""

----------------------------------------------------------------------------
(* Properties of the field adapter, under SpecFields *)

\* C6: mapToZapFields(F) has exactly |F| entries and every key of F is the
\* key of exactly one of them.
FieldCardinalityPreserved ==
    ret.fn = "mapToZapFields" =>
        /\ Len(ret.val) = Cardinality(DOMAIN arg.fields)
        /\ \A k \in DOMAIN arg.fields :
               Cardinality({i \in 1..Len(ret.val) : ret.val[i].Key = k}) = 1

FieldCardinalityWitness ==
    /\ ret.fn = "mapToZapFields"
    /\ Len(ret.val) = 2
    /\ \E k \in DOMAIN arg.fields : arg.fields[k].cat = "struct"
    /\ \E k \in DOMAIN arg.fields : arg.fields[k].cat = "string"

\* The typed field the contract asks for key k holding value v.
IsTypedFieldFor(f, k, v) ==
    /\ f.Key = k
    /\ CASE v.cat = "string" ->
              f.Type = "StringType" /\ f.String = v.val
         [] v.cat \in {"int", "int32", "int64"} ->
              f.Type \in {"Int32Type", "Int64Type"} /\ f.Integer = v.val
         [] v.cat = "float64" ->
              f.Type = "Float64Type" /\ f.Integer = v.val
         [] v.cat = "bool" ->
              f.Type = "BoolType" /\ f.Integer \in {0, 1} /\ (f.Integer = 1 <=> v.val)
         [] v.cat = "[]byte" ->
              f.Type = "BinaryType" /\ f.Interface = v
         [] v.cat = "time.Time" ->
              f.Type = "TimeType" /\ f.Integer = v.val
         [] v.cat = "time.Duration" ->
              f.Type = "DurationType" /\ f.Integer = v.val
         [] OTHER ->
              f.Type = "ReflectType" /\ f.Interface = v

\* C7: every entry of the field set comes out as the typed field of its
\* value's category, with the same key and value, in both variants of the
\* adapter; a value of no special-cased category comes out as the opaque
\* field, and no value makes the conversion fail.
FieldsTypeFaithful ==
    ret.fn = "mapToZapFields" =>
        \A k \in DOMAIN arg.fields :
            \E i \in 1..Len(ret.val) : IsTypedFieldFor(ret.val[i], k, arg.fields[k])

FieldsTypeFaithfulWitness ==
    /\ ret.fn = "mapToZapFields"
    /\ arg.variant = "Zap"
    /\ \E i \in 1..Len(ret.val) : ret.val[i].Type = "BoolType"
    /\ \E i \in 1..Len(ret.val) : ret.val[i].Type = "BinaryType"

----------------------------------------------------------------------------
(* Properties of the facade, under Spec *)

OpSeverity(op) ==
    CASE op = "Debug" -> DebugLevel
      [] op = "Info"  -> InfoLevel
      [] op = "Warn"  -> WarnLevel
      [] op = "Error" -> ErrorLevel
      [] op = "Fatal" -> FatalLevel

OpZapLevel(op) ==
    CASE op = "Debug" -> zapDebugLevel
      [] op = "Info"  -> zapInfoLevel
      [] op = "Warn"  -> zapWarnLevel
      [] op = "Error" -> zapErrorLevel
      [] op = "Fatal" -> zapFatalLevel

\* The events one step adds to the history; the first is the call itself.
Added == SubSeq(trace', Len(trace) + 1, Len(trace'))
CallStep == Len(trace') > Len(trace)

\* The events of the call at position i: up to the next call or the end.
CallEnd(i) ==
    LET later == {j \in (i + 1)..Len(trace) : trace[j].type = "call"}
    IN IF later = {} THEN Len(trace)
       ELSE (CHOOSE j \in later : \A m \in later : j <= m) - 1
EventsOf(i) == (i + 1)..CallEnd(i)

\* C2: a severity operation below the instance's configured minimum has no
\* observable effect: no engine call, the sink unchanged, no exit callback,
\* the process still running, whatever the message and the fields.
SuppressedCallHasNoEffect ==
    [][(CallStep /\ OpSeverity(Added[1].op) < z.Level) =>
          /\ Len(Added) = 1
          /\ sink' = sink
          /\ proc' = proc
          /\ exitCode' = exitCode
          /\ z' = z]_vars

SuppressedCallWitness ==
    /\ Len(trace) = 3
    /\ Len(sink) = 1
    /\ trace[3].type = "call"
    /\ OpSeverity(trace[3].op) < z.Level
    /\ DOMAIN trace[3].fields # {}

\* C3: a severity operation at or above the configured minimum makes exactly
\* one engine call, with the caller's message and the converted field set,
\* at the engine level of that very operation.
PassingCallEmitsOnce ==
    [][(CallStep /\ OpSeverity(Added[1].op) >= z.Level) =>
          /\ Len(Added) >= 2
          /\ Cardinality({i \in 1..Len(Added) : Added[i].type = "emit"}) = 1
          /\ Added[2].type = "emit"
          /\ Added[2].level = OpZapLevel(Added[1].op)
          /\ Added[2].msg = Added[1].msg
          /\ \E ord \in RangeOrders(Added[1].fields) :
                Added[2].fields = mapToZapFields(z.variant, Added[1].fields, ord)]_vars

PassingCallWitness ==
    /\ Len(trace) = 4
    /\ trace[1].type = "call" /\ trace[1].op = "Warn"
    /\ trace[2].type = "emit" /\ trace[2].level = zapWarnLevel
    /\ trace[3].type = "call" /\ trace[3].op = "Error"
    /\ trace[4].type = "emit" /\ trace[4].level = zapErrorLevel
    /\ Len(trace[4].fields) = 2

\* C4: on an instance with an injected exit callback and a configured
\* minimum among the five severities, a Fatal call writes one Fatal record
\* with the message to the sink and invokes the injected callback exactly
\* once, with status 1.
FatalCallsInjectedExitOnce ==
    \A i \in 1..Len(trace) :
        (/\ trace[i].type = "call"
         /\ trace[i].op = "Fatal"
         /\ lit.hasExit
         /\ lit.hasLevel
         /\ lit.Level \in Severities)
            => /\ Cardinality({j \in EventsOf(i) : trace[j].type = "exit"}) = 1
               /\ \A j \in EventsOf(i) : trace[j].type = "exit" => trace[j].code = 1
               /\ \E r \in 1..Len(sink) :
                      sink[r].level = zapFatalLevel /\ sink[r].msg = trace[i].msg

\* C5: the exit callback is invoked only by a Fatal call, right after that
\* call's engine emit at fatal level has returned; no other operation
\* invokes it, and nothing invokes it once a fatal emit has not returned.
ExitOnlyAfterFatalEmitReturned ==
    \A i \in 1..Len(trace) :
        /\ trace[i].type = "exit" =>
              /\ i >= 3
              /\ trace[i - 1].type = "emit"
              /\ trace[i - 1].level = zapFatalLevel
              /\ trace[i - 1].returned
              /\ trace[i - 2].type = "call"
              /\ trace[i - 2].op = "Fatal"
        /\ (trace[i].type = "emit" /\ ~trace[i].returned) =>
              \A j \in (i + 1)..Len(trace) : trace[j].type # "exit"

ExitPrecedenceWitness ==
    /\ lit.hasExit
    /\ Len(trace) = 4
    /\ trace[2].type = "emit" /\ trace[2].returned
    /\ trace[3].type = "call" /\ trace[3].op = "Fatal"
    /\ trace[4].type = "emit" /\ ~trace[4].returned
    /\ proc = "exited"

\* C8 as stated: with no minimum severity supplied the configured minimum
\* is Info: Debug calls are suppressed, the other four are emitted.
DefaultLevelIsInfo ==
    \A i \in 1..Len(trace) :
        (~lit.hasLevel /\ trace[i].type = "call") =>
            /\ z.Level = InfoLevel
            /\ trace[i].op = "Debug" <=> EventsOf(i) = {}

\* C8 as amended: with no minimum severity supplied the configured minimum
\* is Debug, the zero value of Level, and the engine's minimum is debug too:
\* all five operations are emitted and written.
DefaultLevelIsDebug ==
    ~lit.hasLevel =>
        /\ z.Level = DebugLevel
        /\ \A i \in 1..Len(trace) :
               trace[i].type = "call" =>
                   /\ i < Len(trace)
                   /\ trace[i + 1].type = "emit"
                   /\ trace[i + 1].level = OpZapLevel(trace[i].op)
                   /\ \E r \in 1..Len(sink) :
                          /\ sink[r].level = trace[i + 1].level
                          /\ sink[r].msg = trace[i].msg

DefaultLevelWitness ==
    /\ ~lit.hasLevel
    /\ Len(trace) = 4
    /\ trace[1].type = "call" /\ trace[1].op = "Debug"
    /\ trace[2].type = "emit"
    /\ trace[3].type = "call" /\ trace[3].op = "Info"
    /\ Len(sink) = 2

\* C9 as stated: an instance built without an injected exit callback has
\* the process-termination primitive as its exit callback, a Fatal call
\* that passes the gate on it ends the process with status 1 with no step
\* after it, and only an injected callback is a no-op.
DefaultExitIsProcessExit ==
    \A i \in 1..Len(trace) :
        (/\ trace[i].type = "call"
         /\ trace[i].op = "Fatal"
         /\ FatalLevel >= z.Level)
            => /\ ~lit.hasExit => z.ExitFunc = "os.Exit"
               /\ z.ExitFunc # "os.Exit" => lit.hasExit
               /\ ~lit.hasExit =>
                     proc = "exited" /\ exitCode = 1 /\ CallEnd(i) = Len(trace)

\* C9 as amended: NewZap without an injected exit callback installs the
\* process-termination primitive, NewZapLogger installs a no-op; on either,
\* a Fatal call that passes the gate ends the process with status 1 and no
\* step after it executes.
DefaultExitPerConstructor ==
    /\ (~lit.hasExit /\ lit.variant = "Zap") => z.ExitFunc = "os.Exit"
    /\ (~lit.hasExit /\ lit.variant = "ZapLogger") => z.ExitFunc = "noop"
    /\ \A i \in 1..Len(trace) :
          (/\ ~lit.hasExit
           /\ trace[i].type = "call"
           /\ trace[i].op = "Fatal"
           /\ FatalLevel >= z.Level)
              => /\ proc = "exited"
                 /\ exitCode = 1
                 /\ Len(trace) = i + 1
                 /\ ~ENABLED Next

DefaultExitWitness ==
    /\ ~lit.hasExit
    /\ lit.variant = "Zap"
    /\ Len(trace) = 4
    /\ trace[3].type = "call" /\ trace[3].op = "Fatal"
    /\ proc = "exited"
    /\ exitCode = 1

\* C12: no sequence of Debug, Info, Warn, Error and Fatal calls changes the
\* instance: its configured minimum, its engine handle (the engine's own
\* minimum level, bound to the sink) and its exit callback are, after any
\* calls, the ones construction captured.
ConfigurationImmutable ==
    /\ z = Construct(lit)
    /\ z.Level = (IF lit.hasLevel THEN lit.Level ELSE DebugLevel)
    /\ z.atomicLevel = atomicLevelFor(z.Level)

ConfigurationImmutableWitness ==
    /\ lit.hasExit
    /\ Len(trace) = 3
    /\ trace[1].type = "call" /\ trace[1].op = "Debug"
    /\ trace[2].type = "call" /\ trace[2].op = "Fatal"
    /\ trace[3].type = "emit"
    /\ proc = "exited"
    /\ z = Construct(lit)

\* C13: the wrapper's gate and the engine's gate agree for every configured
\* value the constructors accept: a call writes a record to the sink exactly
\* when its severity is at or above the configured minimum, so the sink holds
\* one record per call that passed the wrapper's gate and the engine dropped
\* none of them.
GatesAgree ==
    /\ Len(sink) = Cardinality({i \in 1..Len(trace) :
                        /\ trace[i].type = "call"
                        /\ OpSeverity(trace[i].op) >= z.Level})
    /\ \A i \in 1..Len(trace) :
          trace[i].type = "emit" => trace[i].level >= z.atomicLevel

----------------------------------------------------------------------------
(* Several callers on one instance.  A handler takes no lock: between its  *)
(* gate and its engine call other callers may run.  The engine call itself *)
(* is one step, the engine being taken as safe for concurrent writers.     *)

\* The goroutines that share the instance.
Callers == {"g1", "g2"}

\* The locals of a caller that is in no handler.
Idle == [pc |-> "idle", op |-> "", msg |-> "", fields |-> <<>>]

\* The severity each handler passes to shouldLog, and the engine method it
\* calls.
HandlerLevel(op) ==
    CASE op = "Debug" -> DebugLevel
      [] op = "Info"  -> InfoLevel
      [] op = "Warn"  -> WarnLevel
      [] op = "Error" -> ErrorLevel
      [] op = "Fatal" -> FatalLevel

HandlerZapLevel(op) ==
    CASE op = "Debug" -> zapDebugLevel
      [] op = "Info"  -> zapInfoLevel
      [] op = "Warn"  -> zapWarnLevel
      [] op = "Error" -> zapErrorLevel
      [] op = "Fatal" -> zapFatalLevel

Ops == {"Debug", "Info", "Warn", "Error", "Fatal"}

\* The field set the concurrent callers log with.
CallerFields == {[k \in {KeyPool[1]} |-> [cat |-> "string", val |-> "value"]]}

\* The events a handler step of caller c added to the history, marked as c's.
OwnedBy(e, c) ==
    IF e.type = "emit"
    THEN [type |-> "emit", caller |-> c, level |-> e.level, msg |-> e.msg,
          fields |-> e.fields, returned |-> e.returned]
    ELSE [type |-> "exit", caller |-> c, code |-> e.code]

CommitAs(w, c) ==
    Commit([w EXCEPT !.trace =
               [i \in 1..Len(w.trace) |->
                   IF i > Len(trace) THEN OwnedBy(w.trace[i], c) ELSE w.trace[i]]])

\* Caller c enters a handler and evaluates `if z.shouldLog(...)`: when the
\* gate is closed the handler returns at once.
Gate(c, op, msg, fields) ==
    /\ CanCall
    /\ arg[c].pc = "idle"
    /\ trace' = Append(trace, [type |-> "call", caller |-> c, op |-> op,
                               msg |-> msg, fields |-> fields])
    /\ arg' = [arg EXCEPT ![c] =
                  IF shouldLog(z, HandlerLevel(op))
                  THEN [pc |-> "gated", op |-> op, msg |-> msg, fields |-> fields]
                  ELSE Idle]
    /\ UNCHANGED <<lit, z, sink, proc, exitCode, ret>>

\* Mutant: the engine call is made twice.
Forward_Twice(c, ord) ==
    /\ proc = "running"
    /\ arg[c].pc = "gated"
    /\ LET zapFields == mapToZapFields(z.variant, arg[c].fields, ord)
           once == zapLog(World, z, HandlerZapLevel(arg[c].op), arg[c].msg, zapFields)
           twice == zapLog(once, z, HandlerZapLevel(arg[c].op), arg[c].msg, zapFields)
       IN CommitAs(twice, c)
    /\ arg' = [arg EXCEPT ![c] = Idle]
    /\ UNCHANGED <<lit, z, ret>>

\* Caller c, past the gate, converts the fields and calls the engine; Fatal
\* then calls the exit callback; the handler returns.
Forward(c, ord) ==
    /\ proc = "running"
    /\ arg[c].pc = "gated"
    /\ LET zapFields == mapToZapFields(z.variant, arg[c].fields, ord)
           logged == zapLog(World, z, HandlerZapLevel(arg[c].op), arg[c].msg, zapFields)
       IN CommitAs(IF arg[c].op = "Fatal"
                   THEN callExitFunc(logged, z.ExitFunc, 1)
                   ELSE logged, c)
    /\ arg' = [arg EXCEPT ![c] = Idle]
    /\ UNCHANGED <<lit, z, ret>>

InitCallers ==
    /\ lit \in Literals
    /\ z = Construct(lit)
    /\ sink = <<>>
    /\ trace = <<>>
    /\ proc = "running"
    /\ exitCode = 0
    /\ arg = [c \in Callers |-> Idle]
    /\ ret = NoRet

NextCallers ==
    \E c \in Callers :
        \/ \E op \in Ops, msg \in Msgs, fields \in CallerFields :
               Gate(c, op, msg, fields)
        \/ \E ord \in RangeOrders(arg[c].fields) : Forward(c, ord)

SpecCallers == InitCallers /\ [][NextCallers]_vars

\* The calls caller c has made, and the engine calls made on its behalf.
CallsOf(c) ==
    LET mine(e) == e.type = "call" /\ e.caller = c
    IN SelectSeq(trace, mine)

EmitsOf(c) ==
    LET mine(e) == e.type = "emit" /\ e.caller = c
    IN SelectSeq(trace, mine)

\* The calls of c that passed the gate and are not still on their way to
\* the engine.
ForwardedOf(c) ==
    LET passes(e) == OpSeverity(e.op) >= z.Level
        passed == SelectSeq(CallsOf(c), passes)
    IN IF arg[c].pc = "gated" THEN SubSeq(passed, 1, Len(passed) - 1) ELSE passed

====
